---- MODULE Spec2Model ----
(***************************************************************************)
(* Model of fetch_events.py (THE DEBT OF WAR feed ingestion): the text     *)
(* functions (relevance filter, classify, estimate_cost, event_id), the    *)
(* merge / retention / cap / breaking pipeline of main(), the summary, and *)
(* the persisted files data/events.json and data/meta.json.                *)
(*                                                                         *)
(* Text is a sequence of one-character strings, so that substring and      *)
(* regular-expression search are computed as Python computes them.         *)
(***************************************************************************)
EXTENDS Integers, Sequences, FiniteSets, TLC

VARIABLES
  clock,        \* the wall clock, what datetime.now(timezone.utc) returns
  events_json,  \* data/events.json
  meta_json,    \* data/meta.json
  proc,         \* the locals of each run of main()
  nruns,        \* number of runs of main() started so far
  firstSeen,    \* history: for each id, the start time of the run that first stored it
  log,          \* history: the order of the loads and writes of overlapping runs
  text,         \* estimate_cost in isolation: its argument
  costResult    \* estimate_cost in isolation: its result

vars == <<clock, events_json, meta_json, proc, nruns, firstSeen, log, text, costResult>>

-----------------------------------------------------------------------------
(* Characters and strings                                                  *)

UpperChars == <<"A","B","C","D","E","F","G","H","I","J","K","L","M",
                "N","O","P","Q","R","S","T","U","V","W","X","Y","Z">>

LowerChars == <<"a","b","c","d","e","f","g","h","i","j","k","l","m",
                "n","o","p","q","r","s","t","u","v","w","x","y","z">>

\* the characters of the model's texts
Chars ==
  {"\n", " ", "+", "-", ".", ":", "/", "0", "1", "2", "3", "4", "5", "6", "7", "8", "9"}
  \cup {UpperChars[i] : i \in 1..Len(UpperChars)}
  \cup {LowerChars[i] : i \in 1..Len(LowerChars)}

\* str.lower() / re.IGNORECASE folding of one ASCII character
LowerOf ==
  [c \in Chars |->
     IF \E i \in 1..Len(UpperChars) : UpperChars[i] = c
     THEN LowerChars[CHOOSE i \in 1..Len(UpperChars) : UpperChars[i] = c]
     ELSE c]

LowerChar(c) == LowerOf[c]

Lower(s) == [i \in 1..Len(s) |-> LowerChar(s[i])]

\* s[:n]
Prefix(s, n) == SubSeq(s, 1, IF Len(s) < n THEN Len(s) ELSE n)

\* lit occurs in s starting at position i (1-based)
OccursAt(lit, s, i) ==
  /\ i >= 1
  /\ i + Len(lit) - 1 <= Len(s)
  /\ \A k \in 1..Len(lit) : s[i + k - 1] = lit[k]

\* Python's `lit in s`
Contains(s, lit) == \E i \in 1..(Len(s) + 1) : OccursAt(lit, s, i)

\* F applied to the value of v, which is computed once
Let(v, F(_)) == CHOOSE r \in {F(x) : x \in {v}} : TRUE

-----------------------------------------------------------------------------
(* Static tables                                                           *)

\* marks an alternative of a pattern that has no ".{0,n}(..|..)" part
NoGap == -1

\* WEAPON_COSTS: (regex pattern, cost_usd, label), in table order.  A pattern
\* is the sequence of its top-level alternatives; an alternative is a literal
\* head, optionally followed by .{0,gap} and a group of literal tails.
WEAPON_COSTS ==
  <<
    \* r"nuclear|nuke"
    [pattern |-> <<[head |-> <<"n","u","c","l","e","a","r">>, gap |-> NoGap, tails |-> {}],
                   [head |-> <<"n","u","k","e">>, gap |-> NoGap, tails |-> {}]>>,
     cost |-> 2000000000, label |-> "Nuclear weapon deployment"],
    \* r"aircraft carrier"
    [pattern |-> <<[head |-> <<"a","i","r","c","r","a","f","t"," ","c","a","r","r","i","e","r">>, gap |-> NoGap, tails |-> {}]>>,
     cost |-> 800000000, label |-> "Aircraft carrier operation/day"],
    \* r"B-2|B2 bomber"
    [pattern |-> <<[head |-> <<"B","-","2">>, gap |-> NoGap, tails |-> {}],
                   [head |-> <<"B","2"," ","b","o","m","b","e","r">>, gap |-> NoGap, tails |-> {}]>>,
     cost |-> 135000, label |-> "B-2 bomber sortie/hr"],
    \* r"F-35|F35"
    [pattern |-> <<[head |-> <<"F","-","3","5">>, gap |-> NoGap, tails |-> {}],
                   [head |-> <<"F","3","5">>, gap |-> NoGap, tails |-> {}]>>,
     cost |-> 36000, label |-> "F-35 sortie/hr"],
    \* r"F-16|F16"
    [pattern |-> <<[head |-> <<"F","-","1","6">>, gap |-> NoGap, tails |-> {}],
                   [head |-> <<"F","1","6">>, gap |-> NoGap, tails |-> {}]>>,
     cost |-> 22000, label |-> "F-16 sortie/hr"],
    \* r"tomahawk"
    [pattern |-> <<[head |-> <<"t","o","m","a","h","a","w","k">>, gap |-> NoGap, tails |-> {}]>>,
     cost |-> 2000000, label |-> "Tomahawk cruise missile"],
    \* r"patriot.{0,20}(missile|intercept)"
    [pattern |-> <<[head |-> <<"p","a","t","r","i","o","t">>, gap |-> 20, tails |-> {<<"m","i","s","s","i","l","e">>, <<"i","n","t","e","r","c","e","p","t">>}]>>,
     cost |-> 4000000, label |-> "Patriot interceptor"],
    \* r"HIMARS|himars"
    [pattern |-> <<[head |-> <<"H","I","M","A","R","S">>, gap |-> NoGap, tails |-> {}],
                   [head |-> <<"h","i","m","a","r","s">>, gap |-> NoGap, tails |-> {}]>>,
     cost |-> 100000, label |-> "HIMARS rocket"],
    \* r"JDAM|jdam"
    [pattern |-> <<[head |-> <<"J","D","A","M">>, gap |-> NoGap, tails |-> {}],
                   [head |-> <<"j","d","a","m">>, gap |-> NoGap, tails |-> {}]>>,
     cost |-> 30000, label |-> "JDAM guided bomb"],
    \* r"abrams|tank.{0,10}(destroy|hit)"
    [pattern |-> <<[head |-> <<"a","b","r","a","m","s">>, gap |-> NoGap, tails |-> {}],
                   [head |-> <<"t","a","n","k">>, gap |-> 10, tails |-> {<<"d","e","s","t","r","o","y">>, <<"h","i","t">>}]>>,
     cost |-> 10000000, label |-> "Abrams tank"],
    \* r"drone.{0,20}(strike|attack)"
    [pattern |-> <<[head |-> <<"d","r","o","n","e">>, gap |-> 20, tails |-> {<<"s","t","r","i","k","e">>, <<"a","t","t","a","c","k">>}]>>,
     cost |-> 50000, label |-> "Drone strike est."],
    \* r"airstrike|air strike"
    [pattern |-> <<[head |-> <<"a","i","r","s","t","r","i","k","e">>, gap |-> NoGap, tails |-> {}],
                   [head |-> <<"a","i","r"," ","s","t","r","i","k","e">>, gap |-> NoGap, tails |-> {}]>>,
     cost |-> 500000, label |-> "Airstrike estimated cost"],
    \* r"artillery|shelling|shell"
    [pattern |-> <<[head |-> <<"a","r","t","i","l","l","e","r","y">>, gap |-> NoGap, tails |-> {}],
                   [head |-> <<"s","h","e","l","l","i","n","g">>, gap |-> NoGap, tails |-> {}],
                   [head |-> <<"s","h","e","l","l">>, gap |-> NoGap, tails |-> {}]>>,
     cost |-> 10000, label |-> "Artillery round"],
    \* r"missile"
    [pattern |-> <<[head |-> <<"m","i","s","s","i","l","e">>, gap |-> NoGap, tails |-> {}]>>,
     cost |-> 500000, label |-> "Missile (generic est.)"],
    \* r"bomb"
    [pattern |-> <<[head |-> <<"b","o","m","b">>, gap |-> NoGap, tails |-> {}]>>,
     cost |-> 50000, label |-> "Bomb/munition"],
    \* r"explosion|blast"
    [pattern |-> <<[head |-> <<"e","x","p","l","o","s","i","o","n">>, gap |-> NoGap, tails |-> {}],
                   [head |-> <<"b","l","a","s","t">>, gap |-> NoGap, tails |-> {}]>>,
     cost |-> 20000, label |-> "Explosive device"]
  >>
CONFLICT_KEYWORDS ==
  {<<"s","t","r","i","k","e">>,
   <<"a","i","r","s","t","r","i","k","e">>,
   <<"m","i","s","s","i","l","e">>,
   <<"b","o","m","b">>,
   <<"b","o","m","b","i","n","g">>,
   <<"e","x","p","l","o","s","i","o","n">>,
   <<"a","t","t","a","c","k">>,
   <<"k","i","l","l","e","d">>,
   <<"d","e","a","d">>,
   <<"c","a","s","u","a","l","t","i","e","s">>,
   <<"t","r","o","o","p","s">>,
   <<"m","i","l","i","t","a","r","y">>,
   <<"w","a","r">>,
   <<"c","o","n","f","l","i","c","t">>,
   <<"o","f","f","e","n","s","i","v","e">>,
   <<"s","h","e","l","l","i","n","g">>,
   <<"d","r","o","n","e">>,
   <<"r","o","c","k","e","t">>,
   <<"i","n","v","a","s","i","o","n">>,
   <<"a","s","s","a","u","l","t">>,
   <<"c","l","a","s","h">>,
   <<"c","e","a","s","e","f","i","r","e">>,
   <<"n","u","c","l","e","a","r">>,
   <<"s","a","n","c","t","i","o","n">>,
   <<"I","r","a","n">>,
   <<"G","a","z","a">>,
   <<"U","k","r","a","i","n","e">>,
   <<"R","u","s","s","i","a">>,
   <<"I","s","r","a","e","l">>,
   <<"H","a","m","a","s">>,
   <<"H","e","z","b","o","l","l","a","h">>,
   <<"S","u","d","a","n">>,
   <<"Y","e","m","e","n">>,
   <<"S","y","r","i","a">>,
   <<"T","a","l","i","b","a","n">>,
   <<"H","o","u","t","h","i">>,
   <<"N","o","r","t","h"," ","K","o","r","e","a">>}
HIGH_WORDS ==
  {<<"k","i","l","l","e","d">>,
   <<"d","e","a","d">>,
   <<"c","a","s","u","a","l","t","i","e","s">>,
   <<"m","a","s","s","a","c","r","e">>,
   <<"n","u","c","l","e","a","r">>,
   <<"i","n","v","a","s","i","o","n">>,
   <<"a","i","r","s","t","r","i","k","e">>,
   <<"m","i","s","s","i","l","e"," ","s","t","r","i","k","e">>,
   <<"b","o","m","b","i","n","g">>,
   <<"d","o","z","e","n","s">>,
   <<"h","u","n","d","r","e","d","s">>}
MEDIUM_WORDS ==
  {<<"a","t","t","a","c","k">>,
   <<"a","t","t","a","c","k","e","d">>,
   <<"c","l","a","s","h">>,
   <<"s","h","e","l","l","i","n","g">>,
   <<"d","r","o","n","e">>,
   <<"w","o","u","n","d","e","d">>,
   <<"o","f","f","e","n","s","i","v","e">>}

None == "None"

\* estimate_cost not yet applied
NoResult == <<-1, None>>

NoText == <<>>

-----------------------------------------------------------------------------
(* The texts of the items the feeds deliver                                *)

\* line 103: full = f"{title} {desc}"
FullText(title, desc) == title \o <<" ">> \o desc

TitleStrike == <<"M","i","s","s","i","l","e"," ","s","t","r","i","k","e">>

TitleDrone == <<"D","r","o","n","e"," ","a","t","t","a","c","k">>

TitleSwarm == <<"S","u","d","a","n"," ","o","r","d","e","r","s"," ","d","r","o","n","e"," ","s","w","a","r","m">>

TitleShelling == <<"S","h","e","l","l","i","n","g"," ","r","e","s","u","m","e","s">>

TitleRain == <<"R","a","i","n"," ","e","x","p","e","c","t","e","d">>

DescKilled == <<"d","o","z","e","n","s"," ","k","i","l","l","e","d">>

DescWar == <<"w","a","r">>

DescBomb == <<"b","o","m","b">>

DescTroops == <<"t","r","o","o","p","s"," ","k","i","l","l","e","d">>

\* title and description of item n of the small pool
PoolText(n) ==
  CASE n = 1 -> <<TitleStrike, <<>>>>
    [] n = 2 -> <<TitleStrike, DescKilled>>
    [] n = 3 -> <<TitleDrone, <<>>>>
    [] n = 4 -> <<TitleSwarm, <<>>>>
    [] n = 5 -> <<TitleShelling, DescKilled>>
    [] n = 6 -> <<TitleRain, <<>>>>
    [] n = 7 -> <<TitleStrike, <<>>>>
    [] n = 8 -> <<TitleShelling, <<>>>>

PoolItems == {1, 2, 3, 4, 5, 6, 7, 8}

\* items a feed keeps, line 93: items[:30]
ItemsPerFeed == 30

\* the names of FEEDS, lines 14-23
FEEDS ==
  <<"Reuters World", "Reuters Top", "BBC World", "Al Jazeera",
    "AP Top News", "France24", "Defense News", "Middle East Eye">>

\* len(FEEDS)
NumFeeds == Len(FEEDS)

\* the k-th item of a full delivery (every feed 30 items): a two-letter title,
\* the first letter the feed's, and one of three descriptions
BulkItemNumbers == 1..(NumFeeds * ItemsPerFeed)

BulkTitle(k) ==
  <<UpperChars[((k - 1) \div ItemsPerFeed) + 1],
    (UpperChars \o LowerChars)[((k - 1) % ItemsPerFeed) + 1]>>

BulkDesc(k) ==
  CASE k % 3 = 0 -> DescWar
    [] k % 3 = 1 -> DescBomb
    [] k % 3 = 2 -> DescTroops

\* every text estimate_cost, classify and the relevance test meet in a run
KnownTexts ==
  {FullText(PoolText(n)[1], PoolText(n)[2]) : n \in PoolItems}
  \cup {FullText(BulkTitle(k), BulkDesc(k)) : k \in BulkItemNumbers}

-----------------------------------------------------------------------------
(* classify, estimate_cost, relevance                                      *)

\* re.search(alternative, t, re.IGNORECASE) on an already case-folded text:
\* "." matches any character but a newline
AltMatches(alt, t) ==
  \E h \in {Lower(alt.head)} :
    \E i \in 1..(Len(t) + 1) :
      /\ OccursAt(h, t, i)
      /\ \/ alt.gap = NoGap
         \/ \E g \in 0..alt.gap :
              /\ \A k \in 0..(g - 1) :
                    /\ i + Len(h) + k <= Len(t)
                    /\ t[i + Len(h) + k] # "\n"
              /\ \E tl \in {Lower(x) : x \in alt.tails} : OccursAt(tl, t, i + Len(h) + g)

\* re.search(pattern, txt, re.IGNORECASE)
Search(pattern, txt) ==
  \E t \in {Lower(txt)} :
    \E a \in 1..Len(pattern) : AltMatches(pattern[a], t)

RECURSIVE CostFrom(_, _)
\* the for loop of estimate_cost from table row i on
CostFrom(i, txt) ==
  IF i > Len(WEAPON_COSTS) THEN <<0, None>>
  ELSE IF Search(WEAPON_COSTS[i].pattern, txt)
       THEN <<WEAPON_COSTS[i].cost, WEAPON_COSTS[i].label>>
       ELSE CostFrom(i + 1, txt)

\* what the docstring of estimate_cost says: the most expensive matching row
estimate_cost_MostExpensive(txt) ==
  LET hit == {i \in 1..Len(WEAPON_COSTS) : Search(WEAPON_COSTS[i].pattern, txt)}
  IN  IF hit = {} THEN <<0, None>>
      ELSE LET m == CHOOSE i \in hit :
                      \A j \in hit : WEAPON_COSTS[j].cost <= WEAPON_COSTS[i].cost
           IN  <<WEAPON_COSTS[m].cost, WEAPON_COSTS[m].label>>

\* estimate_cost(text), lines 72-77
estimate_cost(txt) == CostFrom(1, txt)

\* the words of `words` that occur in the lower-cased text
WordsIn(words, txt) ==
  Let(Lower(txt), LAMBDA t : {w \in words : Contains(t, w)})

\* classify(text), lines 64-70
classify(txt) ==
  LET h == Cardinality(WordsIn(HIGH_WORDS, txt))
      m == Cardinality(WordsIn(MEDIUM_WORDS, txt))
  IN  IF h >= 1 THEN "high"
      ELSE IF m >= 1 THEN "medium"
      ELSE "low"

\* kw.lower() for kw in CONFLICT_KEYWORDS
KeywordsLower == {Lower(w) : w \in CONFLICT_KEYWORDS}

\* line 143: any(kw.lower() in item["full"].lower() for kw in CONFLICT_KEYWORDS)
Relevant(full) ==
  \E t \in {Lower(full)} : \E kw \in KeywordsLower : Contains(t, kw)

\* What the three functions return on the texts of the deliveries, computed
\* once: a run looks its items' texts up here.
TextFacts ==
  [t \in KnownTexts |->
     [cost |-> estimate_cost(t), severity |-> classify(t), relevant |-> Relevant(t)]]

\* estimate_cost(item["full"]), line 149
CostOfItem(full) ==
  IF full \in KnownTexts THEN TextFacts[full].cost ELSE estimate_cost(full)

\* classify(item["full"]), line 150
SeverityOfItem(full) ==
  IF full \in KnownTexts THEN TextFacts[full].severity ELSE classify(full)

\* the test of line 143 on item["full"]
RelevantItem(full) ==
  IF full \in KnownTexts THEN TextFacts[full].relevant ELSE Relevant(full)

-----------------------------------------------------------------------------
(* Character order, digits                                                 *)

\* the characters in use, in code-point order (what Python's str comparison uses)
Ascii == <<"\n"," ","+","-",".","0","1","2","3","4","5","6","7","8","9",":",
           "A","B","C","D","E","F","G","H","I","J","K","L","M",
           "N","O","P","Q","R","S","T","U","V","W","X","Y","Z",
           "a","b","c","d","e","f","g","h","i","j","k","l","m",
           "n","o","p","q","r","s","t","u","v","w","x","y","z">>

\* ord(c), up to the order
OrdOf == [c \in {Ascii[i] : i \in 1..Len(Ascii)} |-> CHOOSE i \in 1..Len(Ascii) : Ascii[i] = c]

Ord(c) == OrdOf[c]

\* a < b for Python strings: the first differing character decides, a proper
\* prefix is smaller
StrLess(a, b) ==
  LET n == IF Len(a) < Len(b) THEN Len(a) ELSE Len(b)
      d == {i \in 1..n : a[i] # b[i]}
  IN  IF d = {} THEN Len(a) < Len(b)
      ELSE LET i == CHOOSE x \in d : \A y \in d : x <= y
           IN  Ord(a[i]) < Ord(b[i])

\* a >= b for Python strings
StrGE(a, b) == ~StrLess(a, b)

DigitChars == <<"0","1","2","3","4","5","6","7","8","9">>

\* n formatted as w decimal digits, zero padded (%02d, %06d)
RECURSIVE Digits(_, _)
Digits(n, w) ==
  IF w = 0 THEN <<>>
  ELSE Append(Digits(n \div 10, w - 1), DigitChars[(n % 10) + 1])

-----------------------------------------------------------------------------
(* datetime: an instant is [s |-> seconds, us |-> microseconds], UTC.       *)
(* Second 0 is 2026-11-01T00:00:00+00:00; every instant of the model lies  *)
(* in November 2026, so the date is the day of the month.                  *)

SecondsPerHour == 60 * 60

SecondsPerDay == 24 * SecondsPerHour

MicrosPerSecond == 1000 * 1000

Instant(s, us) == [s |-> s, us |-> us]

\* a < b for datetimes
Before(a, b) == a.s < b.s \/ (a.s = b.s /\ a.us < b.us)

\* t - timedelta(seconds = n)
MinusSeconds(t, n) == [s |-> t.s - n, us |-> t.us]

\* the clock d microseconds after t
PlusMicros(t, d) ==
  [s |-> t.s + ((t.us + d) \div MicrosPerSecond), us |-> (t.us + d) % MicrosPerSecond]

\* t.date(), as the day of the month
DateOf(t) == (t.s \div SecondsPerDay) + 1

\* str(date): "2026-11-DD"
DateStr(d) == <<"2","0","2","6","-","1","1","-">> \o Digits(d, 2)

\* datetime.isoformat() of an aware UTC datetime: the fraction is left out
\* when the microsecond is 0
isoformat(t) ==
  LET sod == t.s % SecondsPerDay
  IN  DateStr(DateOf(t)) \o <<"T">>
      \o Digits(sod \div SecondsPerHour, 2) \o <<":">>
      \o Digits((sod % SecondsPerHour) \div 60, 2) \o <<":">>
      \o Digits(sod % 60, 2)
      \o (IF t.us = 0 THEN <<>> ELSE <<".">> \o Digits(t.us, 6))
      \o <<"+","0","0",":","0","0">>

\* t.replace(hour=0, minute=0, second=0): the microsecond stays
MidnightReplace(t) == [s |-> t.s - (t.s % SecondsPerDay), us |-> t.us]

\* timedelta(days=7), line 132
IngestDays == 7

\* timedelta(hours=72), line 172
RetentionHours == 72

\* timedelta(hours=3), line 176
AlertHours == 3

\* [:200], line 173
MaxEvents == 200

\* title[:40], the seen_titles key
SeenTitleLen == 40

\* title[:50], the part of the title in the id
IdTitleLen == 50

\* title[:200]
TitleLen == 200

\* item["desc"][:300]
DescLen == 300

\* time.sleep(0.5), in microseconds
SleepMicros == 500000

-----------------------------------------------------------------------------
(* event_id                                                                *)

\* number of values of the model's digest (md5 truncated to 10 hex digits in
\* the program: a fixed-width digest, so distinct inputs may collide)
HashSpace == 251

HashMul == 31

RECURSIVE PowMod(_)
\* HashMul to the e-th power, modulo HashSpace
PowMod(e) ==
  IF e = 0 THEN 1 % HashSpace
  ELSE IF e % 2 = 0 THEN (PowMod(e \div 2) * PowMod(e \div 2)) % HashSpace
  ELSE (HashMul * PowMod(e - 1)) % HashSpace

RECURSIVE DigestRange(_, _, _)
\* the digest of s[lo..hi]: the characters' codes as the digits of a number
\* in base HashMul, modulo HashSpace
DigestRange(s, lo, hi) ==
  IF lo > hi THEN 0
  ELSE IF lo = hi THEN Ord(s[lo]) % HashSpace
  ELSE (DigestRange(s, lo, (lo + hi) \div 2) * PowMod(hi - ((lo + hi) \div 2))
        + DigestRange(s, ((lo + hi) \div 2) + 1, hi)) % HashSpace

\* hashlib.md5(s.encode()).hexdigest()[:10]
Digest(s) == DigestRange(s, 1, Len(s))

event_id(title, d) == Digest(Prefix(title, IdTitleLen) \o DateStr(d))

-----------------------------------------------------------------------------
(* fetch_feed's items and parse_date                                       *)

\* lines 103-105: the dict fetch_feed builds for one item
MkItem(title, link, desc, pub, source) ==
  [title |-> title, link |-> link, desc |-> desc, pub |-> pub,
   full |-> FullText(title, desc), source |-> source]

\* A published-timestamp text is modelled by what strptime makes of it:
\* whether one of the four formats accepts it, the wall-clock time it spells
\* and the UTC offset it spells.
PubText(wall, off) == [parses |-> TRUE, wall |-> wall, utcoffset |-> off]

PubBad == [parses |-> FALSE, wall |-> 0, utcoffset |-> 0]

\* strptime(...).replace(tzinfo=timezone.utc): the wall-clock time is kept and
\* the offset dropped; without a matching format, datetime.now(timezone.utc)
parse_date(pub, now) ==
  IF pub.parses THEN Instant(pub.wall, 0) ELSE now

-----------------------------------------------------------------------------
(* load_existing and the body of main                                      *)

NoFile == [exists |-> FALSE, data |-> <<>>]

File(data) == [exists |-> TRUE, data |-> data]

\* a sequence given as a function on 1..n, as the tuple of its values
AsList(f) == f \o <<>>

HasId(d, id) == \E k \in 1..Len(d) : d[k].id = id

\* {e["id"]: e for e in list}, a dict kept as the sequence of its values in
\* insertion order: a key stands where it was first inserted and holds the
\* value inserted last
DictOf(list) ==
  Let(AsList([i \in 1..Len(list) |->
                [first |-> \A j \in 1..(i - 1) : list[j].id # list[i].id,
                 value |-> list[CHOOSE j \in i..Len(list) :
                                  /\ list[j].id = list[i].id
                                  /\ \A k \in (j + 1)..Len(list) : list[k].id # list[i].id]]]),
      LAMBDA tagged :
        Let(SelectSeq(tagged, LAMBDA x : x.first),
            LAMBDA firsts : AsList([k \in 1..Len(firsts) |-> firsts[k].value])))

\* load_existing(): a missing file is {} (an unreadable one is the storage's
\* business and is not modelled)
load_existing(file) ==
  IF file.exists THEN DictOf(file.data) ELSE <<>>

\* lines 149-164
Candidate(item, ts, existing) ==
  Let(CostOfItem(item.full), LAMBDA c :
    Let(event_id(item.title, DateOf(ts)), LAMBDA id :
      [id          |-> id,
       title       |-> Prefix(item.title, TitleLen),
       source      |-> item.source,
       url         |-> item.link,
       description |-> Prefix(item.desc, DescLen),
       timestamp   |-> isoformat(ts),
       severity    |-> SeverityOfItem(item.full),
       cost_usd    |-> c[1],
       cost_label  |-> c[2],
       is_new      |-> ~HasId(existing, id)]))

\* lines 141-164 for one item: st is [new_events, seen_titles] before it, the
\* result is [new_events, seen_titles] after it; nowParse is the clock
\* parse_date reads
IngestItem(st, item, existing, cutoff, nowParse) ==
  LET title == item.title
      ts    == parse_date(item.pub, nowParse)
  IN  IF title = <<>> \/ Prefix(title, SeenTitleLen) \in st.seen_titles THEN st
      ELSE IF ~RelevantItem(item.full) THEN st
      ELSE IF Before(ts, cutoff) THEN st
      ELSE [new_events  |-> Append(st.new_events, Candidate(item, ts, existing)),
            seen_titles |-> st.seen_titles \cup {Prefix(title, SeenTitleLen)}]

RECURSIVE IngestItems(_, _, _, _, _, _, _)
\* the inner loop, lines 140-164, over items lo..hi of one feed, in their
\* order: the first half, then the second half from where the first left off
IngestItems(items, lo, hi, existing, cutoff, nowParse, st) ==
  IF lo > hi THEN st
  ELSE IF lo = hi THEN IngestItem(st, items[lo], existing, cutoff, nowParse)
  ELSE Let(IngestItems(items, lo, (lo + hi) \div 2, existing, cutoff, nowParse, st),
           LAMBDA st2 : IngestItems(items, ((lo + hi) \div 2) + 1, hi,
                                    existing, cutoff, nowParse, st2))

RECURSIVE IngestFeeds(_, _, _, _, _, _, _, _)
\* the outer loop, lines 137-164, over feeds lo..hi, in their order:
\* fetched[f] is what fetch_feed returns for FEEDS[f]; the loop has slept
\* f - 1 times before it parses the dates of feed f, `late` is what it is
\* late beyond that
IngestFeeds(fetched, lo, hi, existing, cutoff, now1, late, st) ==
  IF lo > hi THEN st
  ELSE IF lo = hi
       THEN IngestItems(fetched[lo], 1, Len(fetched[lo]), existing, cutoff,
                        PlusMicros(now1, (lo - 1) * SleepMicros + late), st)
  ELSE Let(IngestFeeds(fetched, lo, (lo + hi) \div 2, existing, cutoff, now1, late, st),
           LAMBDA st2 : IngestFeeds(fetched, ((lo + hi) \div 2) + 1, hi,
                                    existing, cutoff, now1, late, st2))

\* new_events after the loop of lines 137-164
Ingest(fetched, existing, cutoff, now1, late) ==
  IngestFeeds(fetched, 1, Len(fetched), existing, cutoff, now1, late,
              [new_events |-> <<>>, seen_titles |-> {}]).new_events

\* Merge with the prior collection's record kept for an id both have
Merge_PriorWins(new_events, existing) ==
  Let(DictOf(new_events), LAMBDA merged :
    existing \o SelectSeq(merged, LAMBDA e : ~HasId(existing, e.id)))

\* Merge without the test "k not in merged"
Merge_KeepAllPrior(new_events, existing) ==
  DictOf(new_events) \o existing

\* lines 167-168: merged = {new}; merged.update({prior whose id is not in merged})
Merge(new_events, existing) ==
  Let(DictOf(new_events), LAMBDA merged :
    merged \o SelectSeq(existing, LAMBDA e : ~HasId(merged, e.id)))

\* s[k] goes before s[j] in sorted(s, key=timestamp, reverse=True): it has the
\* greater timestamp, or the same and stands earlier in s (the sort is stable)
GoesBefore(s, k, j) ==
  \/ StrLess(s[j].timestamp, s[k].timestamp)
  \/ (s[j].timestamp = s[k].timestamp /\ k < j)

\* lists up to this length are sorted and merged in one step
ShortLen == 16

\* sorted(...) of a short list: each element at the place its rank gives
SortShort(s) ==
  Let(AsList([k \in 1..Len(s) |->
                1 + Cardinality({j \in 1..Len(s) : j # k /\ GoesBefore(s, j, k)})]),
      LAMBDA rank :
        AsList([p \in 1..Len(s) |-> s[CHOOSE k \in 1..Len(s) : rank[k] = p]]))

\* a short descending list a merged into the descending list b: a[i] goes
\* after the elements of b that are greater than it
MergeShort(a, b) ==
  Let(AsList([i \in 1..Len(a) |->
                i + Cardinality({j \in 1..Len(b) : StrLess(a[i].timestamp, b[j].timestamp)})]),
      LAMBDA place :
        AsList([k \in 1..(Len(a) + Len(b)) |->
                  IF \E i \in 1..Len(a) : place[i] = k
                  THEN a[CHOOSE i \in 1..Len(a) : place[i] = k]
                  ELSE b[k - Cardinality({i \in 1..Len(a) : place[i] < k})]]))

RECURSIVE MergeDesc(_, _)
\* a and b, both descending by timestamp, put together descending; on a tie
\* a's element goes first.  The middle element of a goes after the elements
\* of b that are greater than it, and the rest is merged on either side.
MergeDesc(a, b) ==
  IF Len(a) = 0 THEN b
  ELSE IF Len(b) = 0 THEN a
  ELSE IF Len(a) <= ShortLen THEN MergeShort(a, b)
  ELSE Let(Cardinality({j \in 1..Len(b) :
                          StrLess(a[(Len(a) + 1) \div 2].timestamp, b[j].timestamp)}),
           LAMBDA p :
             MergeDesc(SubSeq(a, 1, ((Len(a) + 1) \div 2) - 1), SubSeq(b, 1, p))
             \o <<a[(Len(a) + 1) \div 2]>>
             \o MergeDesc(SubSeq(a, ((Len(a) + 1) \div 2) + 1, Len(a)),
                          SubSeq(b, p + 1, Len(b))))

RECURSIVE SortDesc(_)
\* sorted(s, key=lambda x: x["timestamp"], reverse=True): a stable sort, the
\* greatest timestamp first, equal timestamps in their order in s
SortDesc(s) ==
  IF Len(s) <= ShortLen THEN SortShort(s)
  ELSE Let(<<SortDesc(SubSeq(s, 1, Len(s) \div 2)),
             SortDesc(SubSeq(s, (Len(s) \div 2) + 1, Len(s)))>>,
           LAMBDA halves : MergeDesc(halves[1], halves[2]))

\* Retain with the ingest window of line 132 in place of the 72 hours
Retain_IngestWindow(s, nowRecent) ==
  Let(isoformat(MinusSeconds(nowRecent, IngestDays * SecondsPerDay)),
      LAMBDA recent_cutoff :
        SelectSeq(s, LAMBDA e : StrGE(e.timestamp, recent_cutoff)))

\* lines 172-173, the filter
Retain(s, nowRecent) ==
  Let(isoformat(MinusSeconds(nowRecent, RetentionHours * SecondsPerHour)),
      LAMBDA recent_cutoff :
        SelectSeq(s, LAMBDA e : StrGE(e.timestamp, recent_cutoff)))

\* s[-200:]
Cap_KeepLast(s) ==
  IF Len(s) <= MaxEvents THEN s ELSE SubSeq(s, Len(s) - MaxEvents + 1, Len(s))

\* s[:200]
Cap(s) == Prefix(s, MaxEvents)

\* e["is_breaking"] = v, whether or not e has the key
SetBreaking(e, v) ==
  [k \in (DOMAIN e) \cup {"is_breaking"} |-> IF k = "is_breaking" THEN v ELSE e[k]]

\* MarkBreaking that leaves an is_breaking the Event already has
MarkBreaking_KeepOld(s, nowAlert) ==
  Let(isoformat(MinusSeconds(nowAlert, AlertHours * SecondsPerHour)),
      LAMBDA alert_cutoff :
        AsList([k \in 1..Len(s) |->
                  IF "is_breaking" \in DOMAIN s[k] THEN s[k]
                  ELSE SetBreaking(s[k], StrGE(s[k].timestamp, alert_cutoff)
                                         /\ s[k].severity = "high")]))

\* lines 176-178
MarkBreaking(s, nowAlert) ==
  Let(isoformat(MinusSeconds(nowAlert, AlertHours * SecondsPerHour)),
      LAMBDA alert_cutoff :
        AsList([k \in 1..Len(s) |->
                  SetBreaking(s[k], StrGE(s[k].timestamp, alert_cutoff)
                                    /\ s[k].severity = "high")]))

\* lines 166-178: merged, sorted, filtered, capped, marked
FinalCollection(new_events, existing, nowRecent, nowAlert) ==
  Let(SortDesc(Merge(new_events, existing)), LAMBDA sorted :
    Let(Cap(Retain(sorted, nowRecent)), LAMBDA kept :
      MarkBreaking(kept, nowAlert)))

RECURSIVE SumCost(_, _, _)
\* sum(e["cost_usd"] for e in s[lo..hi])
SumCost(s, lo, hi) ==
  IF lo > hi THEN 0
  ELSE IF lo = hi THEN s[lo].cost_usd
  ELSE SumCost(s, lo, (lo + hi) \div 2) + SumCost(s, ((lo + hi) \div 2) + 1, hi)

\* lines 184-186
TodayCost(all_events, nowToday) ==
  Let(isoformat(MidnightReplace(nowToday)), LAMBDA start :
    Let(SelectSeq(all_events, LAMBDA e : StrGE(e.timestamp, start)),
        LAMBDA today : SumCost(today, 1, Len(today))))

\* lines 187-193
Meta(all_events, nowToday, nowUpdated) ==
  [last_updated     |-> isoformat(nowUpdated),
   event_count      |-> Len(all_events),
   breaking_count   |-> Cardinality({k \in 1..Len(all_events) : all_events[k].is_breaking}),
   today_extra_cost |-> TodayCost(all_events, nowToday),
   high_count       |-> Cardinality({k \in 1..Len(all_events) : all_events[k].severity = "high"})]

-----------------------------------------------------------------------------
(* Runs of main(), one after the other                                     *)

\* the run slots: "A" runs alone, "A" and "B" are the two overlapping runs
Procs == {"A", "B"}

IdleProc ==
  [pc |-> "idle", cutoff |-> Instant(0, 0), existing |-> <<>>, new_events |-> <<>>,
   all_events |-> <<>>, now_start |-> Instant(0, 0), now_recent |-> Instant(0, 0),
   now_alert |-> Instant(0, 0), now_today |-> Instant(0, 0)]

\* number of runs of main() in a behaviour
MaxRuns == 2

\* the clock at the start: 2026-11-10T12:00:00+00:00
StartClock == Instant(9 * SecondsPerDay + 12 * SecondsPerHour, 0)

\* hours from the end of a run (or from the start) to the next run's start
GapHours == {5, 73}

\* microseconds between two of the later clock reads of a run, when they differ
ReadStep == 250000

\* the least time the feed loop takes: a sleep per feed
FetchMicros == NumFeeds * SleepMicros

\* What a run is late by, in microseconds: at parse_date's clock reads, at
\* the read of line 172, and again between each two reads after it.
Delays == {0, ReadStep}

FetchSeconds == FetchMicros \div MicrosPerSecond

\* The published-timestamp text of item n of the small pool, for a run that
\* starts at `now`.
\*  1  published 3 h before the read of line 176 at the earliest
\*  2  a date no format accepts
\*  3  published at 00:00:00 of the run's day, with a UTC offset in the text
\*  4  future-dated
\*  5  published 72 h before the read of line 172 at the earliest
\*  6  published now (the item has no conflict keyword)
\*  7  older than the 7 days of line 132
\*  8  four days old
PoolPub(n, now) ==
  CASE n = 1 -> PubText(now.s - AlertHours * SecondsPerHour + FetchSeconds, 0)
    [] n = 2 -> PubBad
    [] n = 3 -> PubText(now.s - (now.s % SecondsPerDay), 2 * SecondsPerHour)
    [] n = 4 -> PubText(now.s + 90 * SecondsPerHour, 0)
    [] n = 5 -> PubText(now.s - RetentionHours * SecondsPerHour + FetchSeconds, 0)
    [] n = 6 -> PubText(now.s, 0)
    [] n = 7 -> PubText(now.s - 8 * SecondsPerDay, 0)
    [] n = 8 -> PubText(now.s - 4 * SecondsPerDay, 0)

\* the feed that delivers item n
PoolFeed(n) ==
  CASE n = 1 -> 2
    [] n = 2 -> 3
    [] n = 3 -> 1
    [] n = 4 -> 6
    [] n = 5 -> 7
    [] n = 6 -> 3
    [] n = 7 -> 1
    [] n = 8 -> 8

\* item n of the small pool as fetch_feed returns it
Item(n, now) ==
  MkItem(PoolText(n)[1], <<"h","t","t","p","s",":","/","/","e","x","/">> \o Digits(n, 1),
         PoolText(n)[2], PoolPub(n, now), FEEDS[PoolFeed(n)])

\* what the feeds deliver to one run, as item numbers in the order of FEEDS
Deliveries ==
  {<<>>, <<1>>, <<2>>, <<3>>, <<4>>, <<5>>,
   <<1, 2>>, <<1, 4>>, <<3, 1>>, <<3, 5>>, <<6, 4>>, <<7, 2>>, <<3, 8>>}

RECURSIVE ItemsOf(_, _)
ItemsOf(delivery, now) ==
  IF delivery = <<>> THEN <<>>
  ELSE <<Item(Head(delivery), now)>> \o ItemsOf(Tail(delivery), now)

\* what fetch_feed returns for each of FEEDS, in their order
Fetched(delivery, now) ==
  AsList([f \in 1..NumFeeds |->
            ItemsOf(SelectSeq(delivery, LAMBDA n : PoolFeed(n) = f), now)])

\* main() from the feed loop to the end of line 178, lines 134-178, for a run
\* that read the clock `now1` at line 132 and loaded `existing`; its feed loop
\* is `late` microseconds late, and `delay` pass between two later clock reads
MainBody(existing, fetched, now1, late, delay) ==
  Let(Ingest(fetched, existing, MinusSeconds(now1, IngestDays * SecondsPerDay),
             now1, late), LAMBDA new_events :
    LET nowRecent == PlusMicros(now1, FetchMicros + late)
        nowAlert  == PlusMicros(nowRecent, delay)
    IN  [pc |-> "done",
         cutoff |-> MinusSeconds(now1, IngestDays * SecondsPerDay),
         existing |-> existing,
         new_events |-> new_events,
         all_events |-> FinalCollection(new_events, existing, nowRecent, nowAlert),
         now_start |-> now1, now_recent |-> nowRecent, now_alert |-> nowAlert,
         now_today |-> PlusMicros(nowAlert, delay)])

\* main() from its first clock read to the end of line 178, on the file it finds
RunLocals(file, fetched, now1, delay) ==
  Let(load_existing(file), LAMBDA existing : MainBody(existing, fetched, now1, delay, delay))

Init ==
  /\ clock = StartClock
  /\ events_json = NoFile
  /\ meta_json = NoFile
  /\ proc = [p \in Procs |-> IdleProc]
  /\ nruns = 0
  /\ firstSeen = {}
  /\ log = <<>>
  /\ text = NoText
  /\ costResult = NoResult

\* the ids of the collection that firstSeen does not know yet, stamped `at`
NewlySeen(all_events, seen, at) ==
  {[id |-> all_events[k].id, at |-> at] :
     k \in {j \in 1..Len(all_events) : \A f \in seen : f.id # all_events[j].id}}

\* one run of main(), lines 130-194, with nothing else running, `gap` hours
\* after the run before it
Run ==
  /\ nruns < MaxRuns
  /\ \E gap \in GapHours, delivery \in Deliveries, delay \in Delays :
       \E now1 \in {[clock EXCEPT !.s = @ + gap * SecondsPerHour]} :
         /\ \E fetched \in {Fetched(delivery, now1)} :
              proc' = [proc EXCEPT !["A"] = RunLocals(events_json, fetched, now1, delay)]
         /\ clock' = PlusMicros(proc'["A"].now_today, delay)
  /\ events_json' = File(proc'["A"].all_events)
  /\ meta_json' = File(Meta(proc'["A"].all_events, proc'["A"].now_today, clock'))
  /\ firstSeen' = firstSeen \cup NewlySeen(proc'["A"].all_events, firstSeen, proc'["A"].now_alert)
  /\ nruns' = nruns + 1
  /\ UNCHANGED <<log, text, costResult>>

Next == Run

Spec == Init /\ [][Next]_vars

-----------------------------------------------------------------------------
(* Cost estimator in isolation                                             *)

Sp == <<" ">>

\* phrases the input texts are put together from
Phrases ==
  {<<"T","o","m","a","h","a","w","k">>,
   <<"m","i","s","s","i","l","e">>,
   <<"M","I","S","S","I","L","E","S">>,
   <<"P","a","t","r","i","o","t">>,
   <<"i","n","t","e","r","c","e","p","t","e","d">>,
   <<"B","2"," ","b","o","m","b","e","r">>,
   <<"b","o","m","b","i","n","g">>,
   <<"J","D","A","M">>,
   <<"F","-","1","6">>,
   <<"n","u","k","e">>,
   <<"d","r","o","n","e">>,
   <<"a","t","t","a","c","k">>,
   <<"t","a","n","k">>,
   <<"h","i","t">>,
   <<"s","h","e","l","l","s">>,
   <<"b","l","a","s","t">>,
   <<"a","i","r"," ","s","t","r","i","k","e">>,
   <<"c","e","a","s","e","f","i","r","e">>,
   <<"n","e","a","r"," ","t","h","e"," ","b","o","r","d","e","r"," ","t","o","w","n","s">>,
   <<"\n">>}

\* the texts estimate_cost is applied to: one, two or (with a long middle) three phrases
Texts ==
  Phrases
  \cup {p \o Sp \o q : p \in Phrases, q \in Phrases}
  \cup {p \o Sp \o <<"n","e","a","r"," ","t","h","e"," ","b","o","r","d","e","r"," ","t","o","w","n","s">> \o Sp \o q :
          p \in Phrases, q \in Phrases}

InitCost ==
  /\ text \in Texts
  /\ costResult = NoResult
  /\ clock = StartClock
  /\ events_json = NoFile
  /\ meta_json = NoFile
  /\ proc = [p \in Procs |-> IdleProc]
  /\ nruns = 0
  /\ firstSeen = {}
  /\ log = <<>>

\* cost, cost_label = estimate_cost(item["full"])
Estimate ==
  /\ costResult = NoResult
  /\ costResult' = estimate_cost(text)
  /\ UNCHANGED <<text, clock, events_json, meta_json, proc, nruns, firstSeen, log>>

NextCost == Estimate

SpecCost == InitCost /\ [][NextCost]_vars

-----------------------------------------------------------------------------
(* A run on full feeds: more than 200 Events in the window                 *)

\* How the items of a full delivery are dated, for a run that starts at `now`:
\* all on the run's day, "asc" a minute apart rising with k, "desc" falling,
\* "ties" on seven whole hours; "old" as "asc" but every fifth four days old.
BulkPub(k, pattern, now) ==
  LET day == now.s - (now.s % SecondsPerDay)
  IN  CASE pattern = "asc"  -> day + k * 60
        [] pattern = "desc" -> day + (NumFeeds * ItemsPerFeed + 1 - k) * 60
        [] pattern = "ties" -> day + (k % 7) * SecondsPerHour
        [] pattern = "old"  -> IF k % 5 = 0 THEN now.s - 4 * SecondsPerDay
                               ELSE day + k * 60

\* the k-th item of a full delivery as fetch_feed returns it
BulkItem(k, pattern, now) ==
  MkItem(BulkTitle(k), <<"h","t","t","p","s",":","/","/","e","x","/">> \o BulkTitle(k),
         BulkDesc(k), PubText(BulkPub(k, pattern, now), 0),
         FEEDS[((k - 1) \div ItemsPerFeed) + 1])

RECURSIVE BulkItems(_, _, _, _)
\* items lo..hi of a full delivery, in their order
BulkItems(lo, hi, pattern, now) ==
  IF lo > hi THEN <<>>
  ELSE IF lo = hi THEN <<BulkItem(lo, pattern, now)>>
  ELSE BulkItems(lo, (lo + hi) \div 2, pattern, now)
       \o BulkItems(((lo + hi) \div 2) + 1, hi, pattern, now)

\* what fetch_feed returns for each of FEEDS when the feeds deliver items
\* lo..hi of a full delivery: feed f has items 30 (f - 1) + 1 .. 30 f
BulkFetched(lo, hi, pattern, now) ==
  AsList([f \in 1..NumFeeds |->
            BulkItems(IF lo > ItemsPerFeed * (f - 1) + 1 THEN lo ELSE ItemsPerFeed * (f - 1) + 1,
                      IF hi < ItemsPerFeed * f THEN hi ELSE ItemsPerFeed * f,
                      pattern, now)])

\* the deliveries of the runs on full feeds: all eight feeds, the first five,
\* the last five, the last feed
BulkRanges == {<<1, 240>>, <<1, 150>>, <<91, 240>>, <<211, 240>>}

BulkPatterns == {"asc", "desc", "ties", "old"}

\* the clock of the run that wrote the collection a run on full feeds finds:
\* an hour before StartClock
PriorClock == [StartClock EXCEPT !.s = @ - SecondsPerHour]

\* the collections a run on full feeds may find: none, or what an earlier run
\* of the same day wrote
BulkPriors ==
  {NoFile}
  \cup {File(RunLocals(NoFile, BulkFetched(r[1], r[2], "asc", PriorClock),
                       PriorClock, 0).all_events) :
          r \in {<<1, 150>>, <<91, 240>>, <<1, 240>>}}
  \cup {File(RunLocals(NoFile, BulkFetched(1, 150, "ties", PriorClock),
                       PriorClock, 0).all_events)}

InitCap ==
  /\ clock = StartClock
  /\ events_json \in BulkPriors
  /\ meta_json = NoFile
  /\ proc = [p \in Procs |-> IdleProc]
  /\ nruns = 0
  /\ firstSeen = {}
  /\ log = <<>>
  /\ text = NoText
  /\ costResult = NoResult

\* one run of main(), lines 130-194, on full feeds
RunBulk ==
  /\ nruns = 0
  /\ \E r \in BulkRanges, pattern \in BulkPatterns, delay \in Delays :
       /\ \E fetched \in {BulkFetched(r[1], r[2], pattern, clock)} :
            proc' = [proc EXCEPT !["A"] = RunLocals(events_json, fetched, clock, delay)]
       /\ clock' = PlusMicros(proc'["A"].now_today, delay)
  /\ events_json' = File(proc'["A"].all_events)
  /\ meta_json' = File(Meta(proc'["A"].all_events, proc'["A"].now_today, clock'))
  /\ nruns' = nruns + 1
  /\ UNCHANGED <<firstSeen, log, text, costResult>>

NextCap == RunBulk

SpecCap == InitCap /\ [][NextCap]_vars

-----------------------------------------------------------------------------
(* Two runs of main() at the same time                                     *)

\* what the feeds deliver to a run that overlaps another
OverlapDeliveries == {<<>>, <<1>>, <<2>>, <<3, 1>>, <<4>>}

\* the collection the overlapping runs may find: none, or what a run five
\* hours before StartClock wrote
EarlierClock == [StartClock EXCEPT !.s = @ - 5 * SecondsPerHour]

OverlapPriors ==
  {NoFile,
   File(RunLocals(NoFile, Fetched(<<3, 1>>, EarlierClock), EarlierClock, 0).all_events)}

InitOverlap ==
  /\ clock = StartClock
  /\ events_json \in OverlapPriors
  /\ meta_json = NoFile
  /\ proc = [p \in Procs |-> IdleProc]
  /\ nruns = 0
  /\ firstSeen = {}
  /\ log = <<>>
  /\ text = NoText
  /\ costResult = NoResult

\* lines 131-135 of run p: the first clock read and load_existing()
Begin(p) ==
  /\ proc[p].pc = "idle"
  /\ proc' = [proc EXCEPT ![p] =
                [@ EXCEPT !.pc = "fetching",
                          !.now_start = clock,
                          !.cutoff = MinusSeconds(clock, IngestDays * SecondsPerDay),
                          !.existing = load_existing(events_json)]]
  /\ log' = Append(log, <<"load", p>>)
  /\ clock' = PlusMicros(clock, ReadStep)
  /\ nruns' = nruns + 1
  /\ UNCHANGED <<events_json, meta_json, firstSeen, text, costResult>>

\* how late a run that started at now1 is when its feed loop ends at the
\* clock `now`, in microseconds beyond the loop's sleeps
Lateness(now1, now) ==
  (now.s - now1.s) * MicrosPerSecond + (now.us - now1.us) - FetchMicros

\* lines 137-181 of run p: the feed loop, the merge and the write of
\* events.json.  The feed loop ends no sooner than its sleeps take.
Collect(p) ==
  /\ proc[p].pc = "fetching"
  /\ \E delivery \in OverlapDeliveries, delay \in Delays :
       \E now1 \in {proc[p].now_start} :
         \E late \in {IF Lateness(now1, clock) > delay THEN Lateness(now1, clock) ELSE delay} :
           \E r \in {MainBody(proc[p].existing, Fetched(delivery, now1), now1, late, delay)} :
             /\ proc' = [proc EXCEPT ![p] = [r EXCEPT !.pc = "written"]]
             /\ clock' = r.now_today
  /\ events_json' = File(proc'[p].all_events)
  /\ log' = Append(log, <<"write", p>>)
  /\ UNCHANGED <<meta_json, nruns, firstSeen, text, costResult>>

\* lines 183-194 of run p: the summary and the write of meta.json
Summarise(p) ==
  /\ proc[p].pc = "written"
  /\ \E delay \in Delays :
       /\ proc' = [proc EXCEPT ![p] = [@ EXCEPT !.pc = "done", !.now_today = clock]]
       /\ clock' = PlusMicros(clock, delay)
  /\ meta_json' = File(Meta(proc[p].all_events, clock, clock'))
  /\ UNCHANGED <<events_json, nruns, firstSeen, log, text, costResult>>

NextOverlap == \E p \in Procs : Begin(p) \/ Collect(p) \/ Summarise(p)

SpecOverlap == InitOverlap /\ [][NextOverlap]_vars

-----------------------------------------------------------------------------
(* Reading the persisted data back                                         *)

DigitVal(c) == Ord(c) - Ord("0")

RECURSIVE Num(_, _, _)
\* int(s[i..j])
Num(s, i, j) == IF i > j THEN 0 ELSE Num(s, i, j - 1) * 10 + DigitVal(s[j])

\* datetime.fromisoformat(ts) of a timestamp in November 2026, +00:00
TimeOf(ts) ==
  Instant((Num(ts, 9, 10) - 1) * SecondsPerDay + Num(ts, 12, 13) * SecondsPerHour
            + Num(ts, 15, 16) * 60 + Num(ts, 18, 19),
          IF ts[20] = "." THEN Num(ts, 21, 26) ELSE 0)

\* a >= b for datetimes
AtOrAfter(a, b) == ~Before(a, b)

\* e without its is_breaking key
WithoutBreaking(e) == [k \in (DOMAIN e) \ {"is_breaking"} |-> e[k]]

\* the record a dict built from the list N holds under id
LastOf(N, id) ==
  N[CHOOSE k \in 1..Len(N) : /\ N[k].id = id
                             /\ \A j \in (k + 1)..Len(N) : N[j].id # id]

\* the run in slot "A" has written events.json
Written == events_json.exists /\ proc["A"].pc = "done"

\* the start of the retention window of the run in slot p
RecentCutoff(p) == MinusSeconds(proc[p].now_recent, RetentionHours * SecondsPerHour)

-----------------------------------------------------------------------------
(* C1                                                                      *)

\* C1 as stated: after a run, every id of the new candidates N is in the
\* final collection, and the Event under it is a record of N.
C1_EveryCandidateStored ==
  Written =>
    \A k \in 1..Len(proc["A"].new_events) :
      \E j \in 1..Len(events_json.data) :
        /\ events_json.data[j].id = proc["A"].new_events[k].id
        /\ \E n \in 1..Len(proc["A"].new_events) :
             WithoutBreaking(events_json.data[j]) = proc["A"].new_events[n]

\* C1, amended: after a run, every id of the new candidates N whose record in
\* N (the last candidate built with that id) is stamped inside the 72-hour
\* retention window of line 172 is in the final collection, under it N's
\* record with is_breaking set and not the prior collection's record, unless
\* the cap of 200 cut it off as older than everything kept.
C1_InWindowCandidateStored ==
  Written =>
    \A k \in 1..Len(proc["A"].new_events) :
      \A last \in {LastOf(proc["A"].new_events, proc["A"].new_events[k].id)} :
        AtOrAfter(TimeOf(last.timestamp), RecentCutoff("A")) =>
          \/ \E j \in 1..Len(events_json.data) :
               /\ events_json.data[j].id = last.id
               /\ WithoutBreaking(events_json.data[j]) = last
          \/ /\ Len(events_json.data) = MaxEvents
             /\ \A j \in 1..Len(events_json.data) :
                  AtOrAfter(TimeOf(events_json.data[j].timestamp), TimeOf(last.timestamp))

\* a run whose candidate has an id of the prior collection, with other data
\* than the prior collection's, and the final collection holds the candidate
C1_CandidateOverridesPrior ==
  /\ Written
  /\ \E k \in 1..Len(proc["A"].new_events), i \in 1..Len(proc["A"].existing),
        j \in 1..Len(events_json.data) :
       /\ proc["A"].existing[i].id = proc["A"].new_events[k].id
       /\ WithoutBreaking(proc["A"].existing[i]) # proc["A"].new_events[k]
       /\ proc["A"].existing[i].timestamp # proc["A"].new_events[k].timestamp
       /\ events_json.data[j].id = proc["A"].new_events[k].id
       /\ WithoutBreaking(events_json.data[j]) = proc["A"].new_events[k]

-----------------------------------------------------------------------------
(* C2                                                                      *)

\* C2: no Event of the collection a run wrote is stamped more than 72 hours
\* before the clock the run read at line 172, carried forward or new.
C2_Retention ==
  Written =>
    \A j \in 1..Len(events_json.data) :
      AtOrAfter(TimeOf(events_json.data[j].timestamp), RecentCutoff("A"))

\* a run that found a prior Event stamped before its window, built no
\* candidate with its id and wrote a collection without it, while it carried
\* another prior Event forward
C2_PriorEventAgedOut ==
  /\ Written
  /\ \E i \in 1..Len(proc["A"].existing) :
       /\ Before(TimeOf(proc["A"].existing[i].timestamp), RecentCutoff("A"))
       /\ ~HasId(proc["A"].new_events, proc["A"].existing[i].id)
       /\ ~HasId(events_json.data, proc["A"].existing[i].id)
  /\ \E i \in 1..Len(proc["A"].existing) :
       /\ ~HasId(proc["A"].new_events, proc["A"].existing[i].id)
       /\ HasId(events_json.data, proc["A"].existing[i].id)

-----------------------------------------------------------------------------
(* C4                                                                      *)

\* C4: the persisted collection holds at most one Event per id.
C4_OneEventPerId ==
  \A i, j \in 1..Len(events_json.data) :
    events_json.data[i].id = events_json.data[j].id => i = j

\* a run that built two candidates with one id, an id the prior collection
\* has too, and wrote it
C4_SameIdTwiceAndPrior ==
  /\ Written
  /\ \E i, j \in 1..Len(proc["A"].new_events) :
       /\ i < j
       /\ proc["A"].new_events[i].id = proc["A"].new_events[j].id
       /\ HasId(proc["A"].existing, proc["A"].new_events[i].id)
       /\ HasId(events_json.data, proc["A"].new_events[i].id)

-----------------------------------------------------------------------------
(* C5                                                                      *)

\* C5: in the collection a run wrote, is_breaking is true exactly of the
\* Events of high severity stamped no earlier than 3 hours before the clock
\* the run read at line 176, whatever is_breaking was in the prior collection.
C5_BreakingRecomputed ==
  Written =>
    \A j \in 1..Len(events_json.data) :
      events_json.data[j].is_breaking
        <=> /\ events_json.data[j].severity = "high"
            /\ AtOrAfter(TimeOf(events_json.data[j].timestamp),
                         MinusSeconds(proc["A"].now_alert, AlertHours * SecondsPerHour))

\* a run that carried forward an Event the prior collection had as breaking,
\* and wrote it as not breaking
C5_StaleFlagOverwritten ==
  /\ Written
  /\ \E i \in 1..Len(proc["A"].existing), j \in 1..Len(events_json.data) :
       /\ events_json.data[j].id = proc["A"].existing[i].id
       /\ ~HasId(proc["A"].new_events, proc["A"].existing[i].id)
       /\ proc["A"].existing[i].is_breaking
       /\ ~events_json.data[j].is_breaking

-----------------------------------------------------------------------------
(* C6                                                                      *)

\* C6 as stated: the collection a run wrote holds no Event whose id first
\* entered the collection more than 72 hours before the run started.
C6_AgesOutAfter72Hours ==
  Written =>
    \A j \in 1..Len(events_json.data) :
      \A f \in firstSeen :
        f.id = events_json.data[j].id =>
          AtOrAfter(f.at, MinusSeconds(proc["A"].now_start, RetentionHours * SecondsPerHour))

-----------------------------------------------------------------------------
(* C7                                                                      *)

\* C7 as stated: in the collection a run wrote, is_new is true exactly of the
\* Events whose id the prior collection the run loaded did not have.
C7_IsNewReflectsPrior ==
  Written =>
    \A j \in 1..Len(events_json.data) :
      events_json.data[j].is_new <=> ~HasId(proc["A"].existing, events_json.data[j].id)

-----------------------------------------------------------------------------
(* C9                                                                      *)

\* 00:00:00 UTC of the date of t
StartOfDay(t) == Instant(t.s - (t.s % SecondsPerDay), 0)

\* C9 as stated: today_extra_cost is the sum of cost_usd over the Events of
\* the final collection stamped at or after 00:00:00 UTC of the run date.
C9_TodayCostFromMidnight ==
  (Written /\ meta_json.exists) =>
    \A today \in {SelectSeq(events_json.data,
                            LAMBDA e : AtOrAfter(TimeOf(e.timestamp),
                                                 StartOfDay(proc["A"].now_today)))} :
      meta_json.data.today_extra_cost = SumCost(today, 1, Len(today))

-----------------------------------------------------------------------------
(* C3                                                                      *)

\* the merged Events inside the retention window of the run in slot "A",
\* before the cap
InWindow == Retain(Merge(proc["A"].new_events, proc["A"].existing), proc["A"].now_recent)

\* C3: the collection a run wrote has at most 200 Events: all of the merged
\* in-window Events when these are at most 200, else 200 of them, and then
\* every in-window Event left out is stamped no later than every Event kept.
C3_CapKeepsNewest ==
  Written =>
    \A inwin \in {InWindow} :
      /\ Len(events_json.data) <= MaxEvents
      /\ Len(events_json.data) = (IF Len(inwin) < MaxEvents THEN Len(inwin) ELSE MaxEvents)
      /\ \A j \in 1..Len(events_json.data) : HasId(inwin, events_json.data[j].id)
      /\ \A d \in {WithoutBreaking(inwin[i]) : i \in {n \in 1..Len(inwin) : ~HasId(events_json.data, inwin[n].id)}} :
           \A j \in 1..Len(events_json.data) :
             AtOrAfter(TimeOf(events_json.data[j].timestamp), TimeOf(d.timestamp))

\* a run whose merged in-window Events were more than 200, prior Events and
\* new candidates among them, and which wrote 200
C3_Truncated ==
  /\ Written
  /\ Len(InWindow) > MaxEvents
  /\ Len(events_json.data) = MaxEvents
  /\ \E i \in 1..Len(proc["A"].existing) :
       /\ ~HasId(proc["A"].new_events, proc["A"].existing[i].id)
       /\ ~HasId(events_json.data, proc["A"].existing[i].id)
       /\ AtOrAfter(TimeOf(proc["A"].existing[i].timestamp), RecentCutoff("A"))

-----------------------------------------------------------------------------
(* C8                                                                      *)

\* the rows of WEAPON_COSTS whose pattern matches txt
MatchingRows(txt) == {i \in 1..Len(WEAPON_COSTS) : Search(WEAPON_COSTS[i].pattern, txt)}

RowOf(label) == CHOOSE i \in 1..Len(WEAPON_COSTS) : WEAPON_COSTS[i].label = label

\* the generic fallback rows: "missile", "bomb", "explosion|blast"
GenericRows ==
  {RowOf("Missile (generic est.)"), RowOf("Bomb/munition"), RowOf("Explosive device")}

\* the rows listed before the generic "missile" row
SpecificRows == 1..(RowOf("Missile (generic est.)") - 1)

-----------------------------------------------------------------------------
(* C10                                                                     *)

\* both runs loaded before either wrote
Overlapped ==
  /\ Len(log) >= 2
  /\ log[1][1] = "load"
  /\ log[2][1] = "load"

\* the run that started later
LaterRun == log[2][2]

\* C10 as stated: once two overlapping runs have both finished, the persisted
\* collection holds every in-window candidate of the run that started later.
C10_LaterRunWins ==
  (Overlapped /\ \A p \in Procs : proc[p].pc = "done") =>
    \A k \in 1..Len(proc[LaterRun].new_events) :
      AtOrAfter(TimeOf(proc[LaterRun].new_events[k].timestamp), RecentCutoff(LaterRun)) =>
        \E j \in 1..Len(events_json.data) :
          /\ events_json.data[j].id = proc[LaterRun].new_events[k].id
          /\ WithoutBreaking(events_json.data[j]) = proc[LaterRun].new_events[k]

====
